---- MODULE Spec2Model ----
(***************************************************************************)
(* A model of aabel-bloom-rs: BloomFilter<T, B, K, H> (src/src/lib.rs).    *)
(*                                                                         *)
(* The filter owns a hash builder and a BitArray<[usize; K]>.  insert     *)
(* takes the first H values of builder.hashes_one(item), maps each to the  *)
(* index `hash as usize % bits.len()` and sets that bit; contains maps the *)
(* same values the same way and answers whether all the bits are set,      *)
(* stopping at the first one that is not.                                  *)
(*                                                                         *)
(* A 64-bit hash value is a sequence of four 16-bit limbs, least           *)
(* significant first, so that the cast to usize and the remainder are      *)
(* computed at their real widths.  The bit array is the sequence of its K  *)
(* storage words, each word the set of its bit positions that are 1.       *)
(***************************************************************************)
EXTENDS Integers, Sequences, FiniteSets

VARIABLES
    K,            \* const generic K: the number of usize cells of the array
    H,            \* const generic H: the hash values taken for each item
    usize_bits,   \* the width of usize on the build's target
    filter,       \* the BloomFilter: [builder, bits]
    twin,         \* a second BloomFilter of the same K, H and keys, given the same inserts
    panicked,     \* an operation panicked (remainder with a divisor of zero)
    inserted,     \* history: the items whose insert returned
    first,        \* history: the first item inserted (0: none yet)
    lastOp,       \* history: the last operation
    lastItem,     \* history: its item (0: none)
    lastRes,      \* history: what it returned
    used          \* history: the <<hash, index>> pairs it consumed on `filter`

vars == <<K, H, usize_bits, filter, twin, panicked, inserted, first,
          lastOp, lastItem, lastRes, used>>

----------------------------------------------------------------------------
(* Bounds and program constants *)

\* The items offered to the filter are 1..MaxItems.
MaxItems == 3

\* pub struct BloomFilter<T, B, const K: usize = 100, const H: usize = 10>
DefaultK == 100
DefaultH == 10

Items == 1 .. MaxItems

\* The instantiations of K and H that are explored.
KChoices == {0, 1, 3, DefaultK}
HChoices == {0, 1, 2, DefaultH}

\* usize is 32 or 64 bits wide, as the target has it (the crate needs std).
UsizeWidths == {32, 64}

\* BuildPairHasher::new_with_keys(keys1, keys2), with the keys of the tests and
\* the same keys swapped.
Builders == { <<<<0, 0>>, <<1, 1>>>>, <<<<1, 1>>, <<0, 0>>>> }

----------------------------------------------------------------------------
(* Hash64: an unsigned 64-bit value as four 16-bit limbs, least significant first *)

\* h1 + n * h2 (mod 2^64), limb by limb with carry.
add_mul64(h1, h2, n) ==
    LET s1 == h1[1] + n * h2[1]
        s2 == h1[2] + n * h2[2] + (s1 \div 65536)
        s3 == h1[3] + n * h2[3] + (s2 \div 65536)
        s4 == h1[4] + n * h2[4] + (s3 \div 65536)
    IN  <<s1 % 65536, s2 % 65536, s3 % 65536, s4 % 65536>>

\* One keyed hasher of the pair: a fixed function of its keys and the item onto
\* the whole 64-bit range.
hash_one(keys, item) ==
    << (item * 40000 + keys[1] * 25173 + keys[2] * 13849 + 4057) % 65536,
       (item * 31153 + keys[1] * 9301  + keys[2] * 49297 + 233)  % 65536,
       (item * 52009 + keys[1] * 36969 + keys[2] * 18000 + 30011) % 65536,
       (item * 60493 + keys[1] * 28411 + keys[2] * 7919  + 40009) % 65536 >>

\* builder.hashes_one(item).take(n): the first n values for the item, the i-th
\* being h1 + (i - 1) * h2 of the pair's two hashers.
hashes_one(builder, item, n) ==
    [i \in 1 .. n |->
        add_mul64(hash_one(builder[1], item), hash_one(builder[2], item), i - 1)]

\* `hash as usize`: the low usize_bits bits of the value.
as_usize(hash) ==
    [j \in 1 .. 4 |-> IF 16 * j <= usize_bits THEN hash[j] ELSE 0]

\* value % m for m > 0, most significant limb first.
rem(value, m) ==
    LET r4 == value[4] % m
        r3 == (r4 * 65536 + value[3]) % m
        r2 == (r3 * 65536 + value[2]) % m
    IN  (r2 * 65536 + value[1]) % m

----------------------------------------------------------------------------
(* BitArray<[usize; K]> *)

\* A fault: the array starts with the lowest bit of every word set.
ZERO_with_bit == [w \in 1 .. K |-> {0}]

\* BitArray::ZERO
ZERO == [w \in 1 .. K |-> {}]

\* self.bits.len()
bits_len(bits) == Len(bits) * usize_bits

\* A fault: the bit is flipped instead of set.
bits_set_toggle(bits, index) ==
    [bits EXCEPT ![(index \div usize_bits) + 1] =
        IF (index % usize_bits) \in @ THEN @ \ {index % usize_bits}
        ELSE @ \cup {index % usize_bits}]

\* self.bits.set(index, true)
bits_set(bits, index) ==
    [bits EXCEPT ![(index \div usize_bits) + 1] = @ \cup {index % usize_bits}]

\* self.bits[index]
bits_get(bits, index) ==
    (index % usize_bits) \in bits[(index \div usize_bits) + 1]

\* The indices of the bits that are 1.
ones(bits) ==
    UNION {{(w - 1) * usize_bits + b : b \in bits[w]} : w \in 1 .. Len(bits)}

----------------------------------------------------------------------------
(* BloomFilter *)

\* pub fn new(builder: B) -> Self
new(builder) == [builder |-> builder, bits |-> ZERO]

\* let index = hash as usize % self.bits.len();
index(hash, bits) == rem(as_usize(hash), bits_len(bits))

\* The remainder panics when its divisor, bits.len(), is zero: the first hash
\* value taken reaches it.
rem_panics(self) == H > 0 /\ bits_len(self.bits) = 0

\* insert's closure: self.bits.set(index, true)
set_bit_for_hash(bits, hash) == bits_set(bits, index(hash, bits))

\* contains' closure: self.bits[index]
get_bit_for_hash(bits, hash) == bits_get(bits, index(hash, bits))

\* A fault: the last of the H values is not used.
RECURSIVE for_each_skip_last(_, _, _)
for_each_skip_last(bits, hashes, i) ==
    IF i >= Len(hashes) THEN bits
    ELSE for_each_skip_last(set_bit_for_hash(bits, hashes[i]), hashes, i + 1)

\* .for_each(set_bit_for_hash) from the i-th value on
RECURSIVE for_each(_, _, _)
for_each(bits, hashes, i) ==
    IF i > Len(hashes) THEN bits
    ELSE for_each(set_bit_for_hash(bits, hashes[i]), hashes, i + 1)

\* .all(get_bit_for_hash) from the i-th value on: false at the first bit that
\* is not set, without looking at the rest
RECURSIVE all(_, _, _)
all(bits, hashes, i) ==
    IF i > Len(hashes) THEN TRUE
    ELSE IF ~get_bit_for_hash(bits, hashes[i]) THEN FALSE
    ELSE all(bits, hashes, i + 1)

\* How many values .all(get_bit_for_hash) pulls from the iterator.
RECURSIVE all_pulled(_, _, _)
all_pulled(bits, hashes, i) ==
    IF i > Len(hashes) THEN Len(hashes)
    ELSE IF ~get_bit_for_hash(bits, hashes[i]) THEN i
    ELSE all_pulled(bits, hashes, i + 1)

\* A fault: insert starts again from an empty array.
insert_rebuild(self, item) ==
    IF rem_panics(self) THEN [self |-> self, panic |-> TRUE]
    ELSE [self  |-> [self EXCEPT !.bits =
                        for_each(ZERO, hashes_one(self.builder, item, H), 1)],
          panic |-> FALSE]

\* pub fn insert<U>(&mut self, item: &U)
insert(self, item) ==
    IF rem_panics(self) THEN [self |-> self, panic |-> TRUE]
    ELSE [self  |-> [self EXCEPT !.bits =
                        for_each(self.bits, hashes_one(self.builder, item, H), 1)],
          panic |-> FALSE]

\* A fault: contains uses its &mut self to record the item it was asked about.
contains_caching(self, item) ==
    IF rem_panics(self) THEN [self |-> self, ret |-> FALSE, panic |-> TRUE]
    ELSE [self  |-> [self EXCEPT !.bits =
                        for_each(self.bits, hashes_one(self.builder, item, H), 1)],
          ret   |-> all(self.bits, hashes_one(self.builder, item, H), 1),
          panic |-> FALSE]

\* A fault: contains uses its &mut self to advance the builder's keys.
contains_rehash(self, item) ==
    IF rem_panics(self) THEN [self |-> self, ret |-> FALSE, panic |-> TRUE]
    ELSE [self  |-> [self EXCEPT !.builder = <<@[2], @[1]>>],
          ret   |-> all(self.bits, hashes_one(self.builder, item, H), 1),
          panic |-> FALSE]

\* pub fn contains<U>(&mut self, item: &U) -> bool
contains(self, item) ==
    IF rem_panics(self) THEN [self |-> self, ret |-> FALSE, panic |-> TRUE]
    ELSE [self  |-> self,
          ret   |-> all(self.bits, hashes_one(self.builder, item, H), 1),
          panic |-> FALSE]

\* What a caller of contains sees.
outcome(self, item) ==
    LET r == contains(self, item)
    IN  IF r.panic THEN "panic" ELSE IF r.ret THEN "true" ELSE "false"

\* The <<hash, index>> pairs of the first n values of the item.
pairs(self, item, n) ==
    LET hashes == hashes_one(self.builder, item, H)
    IN  [i \in 1 .. n |-> <<hashes[i], index(hashes[i], self.bits)>>]

----------------------------------------------------------------------------
(* The state machine *)

Init ==
    /\ K \in KChoices
    /\ H \in HChoices
    /\ usize_bits \in UsizeWidths
    /\ \E b \in Builders : filter = new(b) /\ twin = new(b)
    /\ panicked = FALSE
    /\ inserted = {}
    /\ first = 0
    /\ lastOp = "new"
    /\ lastItem = 0
    /\ lastRes = "unit"
    /\ used = <<>>

\* filter.insert(x) and twin.insert(x): the two are given the same inserts.
Insert(x) ==
    LET r == insert(filter, x)
        t == insert(twin, x)
    IN  /\ ~panicked
        /\ filter' = r.self
        /\ twin' = t.self
        /\ panicked' = r.panic
        /\ inserted' = IF r.panic THEN inserted ELSE inserted \cup {x}
        /\ first' = IF r.panic \/ first # 0 THEN first ELSE x
        /\ lastOp' = IF ~r.panic /\ x \in inserted THEN "reinsert" ELSE "insert"
        /\ lastItem' = x
        /\ lastRes' = IF r.panic THEN "panic" ELSE "unit"
        /\ used' = IF r.panic THEN <<>> ELSE pairs(filter, x, H)
        /\ UNCHANGED <<K, H, usize_bits>>

\* filter.contains(x)
Contains(x) ==
    LET r == contains(filter, x)
    IN  /\ ~panicked
        /\ filter' = r.self
        /\ panicked' = r.panic
        /\ lastOp' = "contains"
        /\ lastItem' = x
        /\ lastRes' = outcome(filter, x)
        /\ used' = IF r.panic THEN <<>>
                   ELSE pairs(filter, x,
                          all_pulled(filter.bits, hashes_one(filter.builder, x, H), 1))
        /\ UNCHANGED <<K, H, usize_bits, twin, inserted, first>>

\* twin.contains(x): the queries of the two filters are their own.
TwinContains(x) ==
    LET r == contains(twin, x)
    IN  /\ ~panicked
        /\ twin' = r.self
        /\ panicked' = r.panic
        /\ lastOp' = "twin_contains"
        /\ lastItem' = x
        /\ lastRes' = outcome(twin, x)
        /\ used' = <<>>
        /\ UNCHANGED <<K, H, usize_bits, filter, inserted, first>>

Next ==
    \E x \in Items :
        \/ Insert(x)
        \/ Contains(x)
        \/ TwinContains(x)

Spec == Init /\ [][Next]_vars

----------------------------------------------------------------------------
(* Properties *)

\* No insert has been performed on the filter.
Fresh == inserted = {} /\ lastOp \notin {"insert", "reinsert"}

\* The H indices h mod M of an item, h a full unsigned 64-bit value and M the
\* bit count of the array (M > 0).
mod_indices(self, item) ==
    LET hashes == hashes_one(self.builder, item, H)
    IN  {rem(hashes[i], bits_len(self.bits)) : i \in 1 .. H}

\* The H indices insert and contains derive for an item (M > 0).
derived_indices(self, item) ==
    LET hashes == hashes_one(self.builder, item, H)
    IN  {index(hashes[i], self.bits) : i \in 1 .. H}

\* C1: no false negatives.  Every item whose insert has returned is reported
\* by contains, whatever was inserted or queried since; a contains call on
\* such an item returned true.
C1_NoFalseNegatives ==
    /\ \A x \in inserted : outcome(filter, x) = "true"
    /\ (lastOp = "contains" /\ lastItem \in inserted) => lastRes = "true"

\* C1's case: the first item inserted is queried after other items were
\* inserted, and contains returns true.
C1_Witness ==
    /\ H >= 1
    /\ first # 0
    /\ Cardinality(inserted) >= 2
    /\ lastOp = "contains"
    /\ lastItem = first
    /\ lastRes = "true"

\* C2: monotonicity.  No step changes the length of the bit array or clears
\* a bit that is 1, and an item contains reports stays reported.
C2_Monotonic ==
    [][ /\ Len(filter'.bits) = Len(filter.bits)
        /\ bits_len(filter'.bits) = bits_len(filter.bits)
        /\ \A w \in 1 .. Len(filter.bits) : filter.bits[w] \subseteq filter'.bits[w]
        /\ \A x \in Items :
              outcome(filter, x) = "true" => outcome(filter', x) = "true"
      ]_vars

\* C2's case: bits are set, and a further item has been inserted since.
C2_Witness ==
    /\ Cardinality(inserted) >= 2
    /\ lastOp = "insert"
    /\ ones(filter.bits) # {}
    /\ \E x \in inserted \ {lastItem} : outcome(filter, x) = "true"

\* C3 as stated: on a fresh filter the bit array is all zero and contains
\* returns false for every item, for the configured M and H.
C3_EmptyReportsNothing ==
    Fresh =>
        /\ ones(filter.bits) = {}
        /\ \A x \in Items : outcome(filter, x) = "false"
        /\ lastOp = "contains" => lastRes = "false"

\* What contains does on a fresh filter: true for H = 0 (no bit is looked at),
\* a panic for H >= 1 and an array of no bits, false otherwise.
fresh_outcome == IF H = 0 THEN "true" ELSE IF K = 0 THEN "panic" ELSE "false"

\* C3 amended: on a fresh filter the bit array has K words and is all zero,
\* and contains returns false for every item when H >= 1 and M >= 1; it
\* returns true for every item when H = 0, and panics when H >= 1 and M = 0.
C3_EmptyReportsNothingAmended ==
    Fresh =>
        /\ Len(filter.bits) = K
        /\ ones(filter.bits) = {}
        /\ \A x \in Items : outcome(filter, x) = fresh_outcome
        /\ lastOp = "contains" => lastRes = fresh_outcome

\* C3's case: contains has returned false on a fresh filter.
C3_Witness ==
    /\ Fresh
    /\ H >= 1
    /\ lastOp = "contains"
    /\ lastRes = "false"

\* C4: idempotence of insert.  In every state and for every item, inserting
\* it twice gives the filter that inserting it once gives, and inserting an
\* item that was inserted before changes nothing.
C4_InsertIdempotent ==
    \A x \in Items :
        ~rem_panics(filter) =>
            /\ insert(insert(filter, x).self, x) = insert(filter, x)
            /\ x \in inserted => insert(filter, x).self = filter

\* C4's case: an item has been inserted a second time into a filter with bits.
C4_Witness ==
    /\ lastOp = "reinsert"
    /\ H >= 1
    /\ Cardinality(inserted) >= 2
    /\ ones(filter.bits) # {}

\* C5: an array of no bits is rejected at construction, so no insert or
\* contains reaches the remainder by zero.
C5_ZeroSizeRejected == ~panicked

\* C6: determinism.  Two filters of the same K and H, built from builders
\* holding the same keys and given the same inserts, keep the same keys, have
\* the same bit array and answer every query alike, whatever queries each
\* has been asked.
C6_Deterministic ==
    /\ filter.builder = twin.builder
    /\ filter.bits = twin.bits
    /\ \A x \in Items : outcome(filter, x) = outcome(twin, x)

\* C6's case: the two filters hold the same keys, items have been inserted,
\* and one filter has been queried on its own.
C6_Witness ==
    /\ filter.builder = twin.builder
    /\ H >= 1
    /\ Cardinality(inserted) >= 2
    /\ lastOp = "contains"
    /\ lastItem \notin inserted

\* C7: contains returns true exactly when every bit at an index h mod M of
\* the item's first H hash values is 1.
C7_ContainsIffAllBits ==
    \A x \in Items :
        ~rem_panics(filter) =>
            (contains(filter, x).ret <=>
                \A n \in mod_indices(filter, x) : bits_get(filter.bits, n))

\* C7 on the indices the code derives: contains returns true exactly when
\* every bit at an index insert would set for the item is 1.
C7_ContainsIffAllDerivedBits ==
    \A x \in Items :
        ~rem_panics(filter) =>
            (contains(filter, x).ret <=>
                \A n \in derived_indices(filter, x) : bits_get(filter.bits, n))

\* C8: every hash value an operation consumed was mapped to the index
\* h mod M, h the full unsigned 64-bit value, and that index is in 0..M-1.
C8_IndexIsHashModM ==
    \A i \in 1 .. Len(used) :
        /\ used[i][2] = rem(used[i][1], bits_len(filter.bits))
        /\ used[i][2] \in 0 .. bits_len(filter.bits) - 1

\* C8 on 64-bit targets, and the range everywhere: the index is in 0..M-1,
\* and it is h mod M where usize holds the whole hash value.
C8_IndexInRange ==
    \A i \in 1 .. Len(used) :
        /\ used[i][2] \in 0 .. bits_len(filter.bits) - 1
        /\ usize_bits = 64 => used[i][2] = rem(used[i][1], bits_len(filter.bits))

\* C9: a contains call changes neither the bit array nor the builder of the
\* filter it is made on, whatever it returns.
C9_ContainsChangesNothing ==
    [][ /\ lastOp' = "contains" => filter' = filter
        /\ lastOp' = "twin_contains" => twin' = twin
      ]_vars

\* C9's case: on a filter with bits set, contains has stopped at a bit that
\* is not set before looking at all H.
C9_Witness ==
    /\ lastOp = "contains"
    /\ lastRes = "false"
    /\ Len(used) >= 2
    /\ Len(used) < H
    /\ ones(filter.bits) # {}

\* C10: the bits that are 1 are exactly the indices h mod M of the items
\* inserted.
C10_BitsAreUnionOfModIndices ==
    ~rem_panics(filter) =>
        ones(filter.bits) = UNION {mod_indices(filter, x) : x \in inserted}

\* C10 on the indices the code derives.
C10_BitsAreUnionOfDerivedIndices ==
    ~rem_panics(filter) =>
        ones(filter.bits) = UNION {derived_indices(filter, x) : x \in inserted}

====
